---- MODULE Spec2Model ----
(***************************************************************************)
(* Model of elasticluster's AnsibleSetupProvider                           *)
(* (src/elasticluster/providers/ansible_provider.py): the provider's       *)
(* fields, the file system it works on, and its three operations           *)
(* __init__, setup_cluster (with _build_inventory) and cleanup.            *)
(*                                                                         *)
(* Every method is translated statement by statement into a step function  *)
(* over a call frame (Step).  Spec runs each call to completion in one     *)
(* action (the single synchronous caller), SpecLaunch does so for every    *)
(* way the child can be launched, and SpecCalls keeps the calls of a       *)
(* provider's life; SpecCleanups and SpecConc interleave the same steps    *)
(* of several calls on one provider.                                       *)
(***************************************************************************)
EXTENDS Integers, Sequences, FiniteSets, TLC

\* ------------------------------------------------------------------ bounds
\* Largest number of nodes of a cluster.
MaxNodes == 2
\* Largest ordinary exit code of the child process (0..MaxExit, and -9).
MaxExit == 2
\* Number of callers in SpecCleanups, SpecConc and SpecCalls; each makes
\* one call.
MaxThreads == 2

\* ------------------------------------------------------- values and inputs
\* Python's None where inventory_path is expected; a path is <<dir, name>>.
None == <<>>
\* `storage_path` not given to the constructor (None or '': both falsy).
NoStorage == ""

\* The clusters of the single caller of Spec, and those of the concurrent
\* callers.
ClusterNames == {"a", "b"}
Clusters == ClusterNames \cup {"c"}

\* class attribute AnsibleSetupProvider.inventory_file_ending
inventory_file_ending == "ansible-inventory"

\* The nodes a cluster can hold: kind, name, preferred_ip, image_user.
\* Node 2 has no preferred address yet.
NodePool ==
  << [name |-> "n1", kind |-> "frontend", preferred_ip |-> "10.0.0.1",
      image_user |-> "ubuntu"],
     [name |-> "n2", kind |-> "compute", preferred_ip |-> "",
      image_user |-> "root"],
     [name |-> "n3", kind |-> "frontend", preferred_ip |-> "10.0.0.3",
      image_user |-> "ubuntu"],
     [name |-> "n4", kind |-> "storage", preferred_ip |-> "10.0.0.4",
      image_user |-> "root"] >>

NodeIds == 1..MaxNodes

\* cluster.get_all_nodes(): an ordered sequence of distinct nodes.
NodeSeqs ==
  { s \in UNION { [1..n -> NodeIds] : n \in 0..MaxNodes } :
      \A i, j \in DOMAIN s : i # j => s[i] # s[j] }

\* The memberships of each cluster.  Cluster "a" takes every membership;
\* clusters "b" and "c" are the siblings that share the storage directory
\* and keep their one node.
NodeSeqsOf(c) == IF c = "a" THEN NodeSeqs ELSE { <<1>> }

\* The `groups` argument: node kind -> list of ansible groups.
GroupMaps ==
  { ("frontend" :> <<"web">>),
    ("frontend" :> <<"web", "db">>) @@ ("compute" :> <<"db">>),
    ("frontend" :> <<"web", "web">>) @@ ("compute" :> <<>>) }

\* The `environment_vars` argument: node kind -> (variable -> value).
EnvMaps ==
  { <<>>,
    ("frontend" :> ("http_port" :> "80")) @@ ("storage" :> ("raid" :> "5")) }

\* What lies at the resolved playbook path.
PlaybookStates == {"missing", "directory", "file"}

\* The `storage_path` argument of the constructor (None: not given).
UserStorage == "/srv/inventory"
TmpDirs == {"/tmp/tmpA", "/tmp/tmpB"}

\* A file of the caller's storage directory that is no inventory file.
OtherFile == "README"

ExitCodes == {-9} \cup (0..MaxExit)

\* The `playbook_path` argument after expansion: the default below
\* sys.prefix, or a path through a symbolic link.
DefaultPlaybook ==
  "/usr/share/elasticluster/providers/ansible-playbooks/site.yml"
LinkedPlaybook == "/srv/playbooks/current/site.yml"
PlaybookPaths == {DefaultPlaybook, LinkedPlaybook}

\* The `sudo` and `sudo_user` arguments.
SudoConfigs ==
  { [sudo |-> TRUE, sudo_user |-> "root"],
    [sudo |-> TRUE, sudo_user |-> "admin"],
    [sudo |-> FALSE, sudo_user |-> "root"] }

\* logging.WARNING
WARNING == 30

\* Values of elasticluster.log.level: the named levels DEBUG, WARNING and
\* CRITICAL, NOTSET, and levels between and below the named ones.
LogLevels == {-10, 0, 10, 15, 25, WARNING, 35, 50}

\* The environment the process inherited (os.environ at start).
InheritedEnvs ==
  { ("HOME" :> "/root") @@ ("PATH" :> "/usr/bin"),
    ("HOME" :> "/root") @@ ("ANSIBLE_FORKS" :> "5")
      @@ ("ANSIBLE_SSH_PIPELINING" :> "no")
      @@ ("ANSIBLE_PRIVATE_KEY_FILE" :> "/old/key") }

Threads == 1..MaxThreads

\* ------------------------------------------------------------------- state
VARIABLES
  groups,            \* self.groups
  environment,       \* self.environment
  playbook,          \* what os.path sees at self._playbook_path
  storage_path,      \* self._storage_path
  storage_path_tmp,  \* self._storage_path_tmp
  fs,                \* file system: existing directory -> (file name -> lines)
  nodes,             \* cluster name -> cluster.get_all_nodes()
  playbook_path,     \* self._playbook_path
  sudo,              \* self._sudo
  sudo_user,         \* self._sudo_user
  ssh_pipelining,    \* self.ssh_pipelining
  log_level,         \* elasticluster.log.level
  os_environ,        \* the data of os.environ: variable -> value
  last,              \* frame of the call that returned last (Spec)
  frames             \* frame of each caller (SpecCleanups, SpecConc, SpecCalls)

vars == << groups, environment, playbook, storage_path, storage_path_tmp,
           fs, nodes, playbook_path, sudo, sudo_user, ssh_pipelining,
           log_level, os_environ, last, frames >>

\* What no call assigns: the provider's configuration and the log level.
config == << groups, environment, playbook, storage_path_tmp, playbook_path,
             sudo, sudo_user, ssh_pipelining, log_level >>

\* ------------------------------------------------------- file system (os)
\* truth value of a path string (`if self._storage_path`)
Truthy(s) == s # NoStorage

\* os.path.exists(dir)
DirExists(f, d) == d \in DOMAIN f

\* os.path.exists(os.path.join(dir, name))
FileExists(f, d, n) == d \in DOMAIN f /\ n \in DOMAIN f[d]

\* os.listdir(dir): defined when the directory exists
Listdir(f, d) == DOMAIN f[d]

\* open(path, 'w+'); write...; close(): creates or truncates the file
WriteFile(f, d, n, lines) ==
  [f EXCEPT ![d] = (n :> lines) @@ [m \in DOMAIN f[d] \ {n} |-> f[d][m]]]

\* os.unlink(path) when it succeeds
RemoveFile(f, d, n) ==
  [f EXCEPT ![d] = [m \in DOMAIN f[d] \ {n} |-> f[d][m]]]

\* shutil.rmtree(dir) when it succeeds: the directory and all it holds
RemoveTree(f, d) == [e \in DOMAIN f \ {d} |-> f[e]]

\* tempfile.mkdtemp(): a fresh, empty directory
MkdtempName(f) == CHOOSE d \in TmpDirs : d \notin DOMAIN f
Mkdir(f, d) == (d :> <<>>) @@ f

\* os.path.join(self._storage_path, fname)
PathJoin(d, n) == <<d, n>>

\* ---------------------------------------------------- _build_inventory
\* Iteration order of a Python dict over the key set S: unspecified, but
\* the same every time.
KeyOrder(S) ==
  CHOOSE q \in [1..Cardinality(S) -> S] : \A i, j \in DOMAIN q : i # j => q[i] # q[j]

RECURSIVE Join(_, _)
\* str.join(sep, items)
Join(sep, items) ==
  IF items = <<>> THEN ""
  ELSE IF Len(items) = 1 THEN items[1]
  ELSE items[1] \o sep \o Join(sep, Tail(items))

\* Variant of ExtraVars: the overrides of every kind are appended.
ExtraVarsOfAllKinds(node) ==
  LET user == <<"ansible_ssh_user=" \o node.image_user>>
      ks == KeyOrder(DOMAIN environment)
      item(k) == LET d == environment[k]
                     vs == KeyOrder(DOMAIN d)
                 IN Join(" ", [i \in DOMAIN vs |-> vs[i] \o "=" \o d[vs[i]]])
  IN user \o [i \in DOMAIN ks |-> item(ks[i])]

\* lines 230-233: extra_vars of a node
ExtraVars(node) ==
  LET user == <<"ansible_ssh_user=" \o node.image_user>>
      env  == IF node.kind \in DOMAIN environment
              THEN LET d == environment[node.kind]
                       ks == KeyOrder(DOMAIN d)
                   IN [i \in DOMAIN ks |-> ks[i] \o "=" \o d[ks[i]]]
              ELSE <<>>
  IN user \o env

\* Variant of AddToGroups: the node is entered in the first of its groups
\* only.
AddToGroupsFirstOnly(inventory, gs, host) ==
  IF gs = <<>> THEN inventory
  ELSE LET g == Head(gs)
           inv1 == IF g \notin DOMAIN inventory
                   THEN (g :> <<>>) @@ inventory
                   ELSE inventory
       IN [inv1 EXCEPT ![g] = Append(@, host)]

RECURSIVE AddToGroups(_, _, _)
\* lines 234-239: append the node's host triple to each of its groups
AddToGroups(inventory, gs, host) ==
  IF gs = <<>> THEN inventory
  ELSE LET g == Head(gs)
           inv1 == IF g \notin DOMAIN inventory
                   THEN (g :> <<>>) @@ inventory
                   ELSE inventory
       IN AddToGroups([inv1 EXCEPT ![g] = Append(@, host)], Tail(gs), host)

RECURSIVE InventoryOf(_, _)
\* lines 227-239: the inventory dict of a node sequence, starting from acc
InventoryOf(ns, acc) ==
  IF ns = <<>> THEN acc
  ELSE LET node == NodePool[Head(ns)]
           acc1 == IF node.kind \in DOMAIN groups
                   THEN AddToGroups(acc, groups[node.kind],
                                    << node.name, node.preferred_ip,
                                       Join(" ", ExtraVars(node)) >>)
                   ELSE acc
       IN InventoryOf(Tail(ns), acc1)

\* lines 258-259: "%s ansible_ssh_host=%s %s\n" % host
HostLine(host) == host[1] \o " ansible_ssh_host=" \o host[2] \o " " \o host[3]

\* line 255: "\n[" + section + "]\n", as the two lines it makes
SectionLines(section) == << "", "[" \o section \o "]" >>

RECURSIVE InventoryLines(_, _)
\* lines 254-260: the lines written for the sections in `order`
InventoryLines(inventory, order) ==
  IF order = <<>> THEN <<>>
  ELSE LET section == Head(order)
           hosts == inventory[section]
       IN SectionLines(section)
          \o [i \in DOMAIN hosts |-> HostLine(hosts[i])]
          \o InventoryLines(inventory, Tail(order))

\* lines 249-250: '%s.%s' % (inventory_file_ending, cluster.name)
Fname(c) == inventory_file_ending \o "." \o c

\* ------------------------------------------------------------ call frames
\* What the operating system decides during one call: whether os.unlink and
\* shutil.rmtree fail (permissions), whether the child can be started, and
\* the exit code of the child.
Input(u, r, s, rc) ==
  [unlink_fails |-> u, rmtree_fails |-> r, spawn_fails |-> s, rc |-> rc]

\* setup_cluster removes nothing; a child that cannot be started has no
\* exit code.
SetupInputs ==
  { Input(FALSE, FALSE, FALSE, rc) : rc \in ExitCodes }
    \cup { Input(FALSE, FALSE, TRUE, 0) }

\* cleanup starts no child.
CleanupInputs == { Input(u, r, FALSE, 0) : u, r \in BOOLEAN }

\* The frame of a call: the method, its argument, the statement it is at,
\* its locals, and how it ended.
\*   build_path: inventory_path of _build_inventory (line 251)
\*   inventory_path: inventory_path of setup_cluster (line 132) and of
\*        cleanup (line 278); None until assigned
\*   lines: what _build_inventory has still to write
\*   ret: "pending", "True", "False", "None" (cleanup's return), or
\*        "raise <exception>"
\*   child: "none", "running", "exited"; exit: <<>> or <<return code>>
\*   cmd, child_env: the command line and the environment call() was given
\* and, as history of the call, for stating properties only:
\*   trail: the statements executed so far
\*   caught: the except clause of cleanup has run
\*   wrote: the call has opened the inventory file for writing
\*   saw_inventory: <<>> or <<whether the inventory file existed when line
\*        165 looked>>
\*   stale: line 253 opened a file that held other lines than those to write
NewFrame(op, c, first) ==
  [op |-> op, cluster |-> c, pc |-> first, build_path |-> None,
   inventory_path |-> None, lines |-> <<>>, ret |-> "pending",
   child |-> "none", exit |-> <<>>, cmd |-> <<>>, child_env |-> <<>>,
   trail |-> <<>>, caught |-> FALSE, wrote |-> FALSE, saw_inventory |-> <<>>,
   stale |-> FALSE]

Idle == NewFrame("none", "", "done")

Return(fr, value) ==
  [fr EXCEPT !.pc = "done", !.ret = value, !.lines = <<>>, !.build_path = None]

Raise(fr, exception) == Return(fr, "raise " \o exception)

\* The world a call works on: the provider's storage path, the file system
\* and the data of os.environ.
World(sp, f, env) == [storage_path |-> sp, fs |-> f, environ |-> env]

Result(fr, w) == [fr |-> fr, w |-> w]

\* ---------------------------------------------------- _build_inventory
\* Variant of BuildStep: with an empty inventory dict, an inventory file of
\* an earlier build is removed.
BuildStepClearing(fr, w) ==
  LET inventory == InventoryOf(nodes[fr.cluster], <<>>)
  IN IF DOMAIN inventory # {}
     THEN LET fresh == storage_path_tmp /\ ~Truthy(w.storage_path)
              sp == IF fresh THEN MkdtempName(w.fs) ELSE w.storage_path
              f  == IF fresh THEN Mkdir(w.fs, sp) ELSE w.fs
          IN Result([fr EXCEPT !.pc = "open",
                               !.build_path = PathJoin(sp, Fname(fr.cluster)),
                               !.lines = InventoryLines(inventory,
                                           KeyOrder(DOMAIN inventory))],
                    [w EXCEPT !.storage_path = sp, !.fs = f])
     ELSE Result([fr EXCEPT !.pc = "check_none", !.inventory_path = None],
                 IF FileExists(w.fs, w.storage_path, Fname(fr.cluster))
                 THEN [w EXCEPT !.fs = RemoveFile(w.fs, w.storage_path,
                                                  Fname(fr.cluster))]
                 ELSE w)

\* lines 227-251: build the inventory dict; when it is not empty, lazily
\* create the temporary storage and name the inventory file; lines 265-267
\* and 132: otherwise return None to setup_cluster
BuildStep(fr, w) ==
  LET inventory == InventoryOf(nodes[fr.cluster], <<>>)
  IN IF DOMAIN inventory # {}
     THEN LET fresh == storage_path_tmp /\ ~Truthy(w.storage_path)
              sp == IF fresh THEN MkdtempName(w.fs) ELSE w.storage_path
              f  == IF fresh THEN Mkdir(w.fs, sp) ELSE w.fs
          IN Result([fr EXCEPT !.pc = "open",
                               !.build_path = PathJoin(sp, Fname(fr.cluster)),
                               !.lines = InventoryLines(inventory,
                                           KeyOrder(DOMAIN inventory))],
                    [w EXCEPT !.storage_path = sp, !.fs = f])
     ELSE Result([fr EXCEPT !.pc = "check_none", !.inventory_path = None], w)

\* Variant of Truncate: the file is opened for appending.
KeepContent(content) == content

\* line 253, mode 'w+': what is left of the content of an existing file
Truncate(content) == <<>>

\* line 253: open(inventory_path, 'w+') creates or truncates the file, and
\* raises IOError when the directory is not there
OpenStep(fr, w) ==
  LET d == fr.build_path[1]
      n == fr.build_path[2]
      kept == IF FileExists(w.fs, d, n) THEN Truncate(w.fs[d][n]) ELSE <<>>
  IN IF DirExists(w.fs, d)
     THEN Result([fr EXCEPT !.pc = "write", !.wrote = TRUE,
                            !.lines = kept \o fr.lines],
                 [w EXCEPT !.fs = WriteFile(w.fs, d, n, kept)])
     ELSE Result(Raise(fr, "IOError"), w)

\* lines 254-264 and 132: write the sections, close, and return the path to
\* setup_cluster; the lines reach the path only while the file is still
\* linked there
WriteStep(fr, w) ==
  LET d == fr.build_path[1]
      n == fr.build_path[2]
  IN Result([fr EXCEPT !.pc = "check_none", !.lines = <<>>,
                       !.inventory_path = fr.build_path, !.build_path = None],
            IF FileExists(w.fs, d, n)
            THEN [w EXCEPT !.fs = WriteFile(w.fs, d, n, fr.lines)]
            ELSE w)

\* ------------------------------------------------------- setup_cluster
\* line 133: cluster.user_key_private; the clusters were started with one
\* key pair
user_key_private == [c \in Clusters |-> "/keys/id_rsa"]

\* Variant of AnsibleEnv: pipelining is switched by the provider's flag.
AnsibleEnvByFlag(c) ==
  ("ANSIBLE_FORKS" :> "10")
    @@ ("ANSIBLE_HOST_KEY_CHECKING" :> "no")
    @@ ("ANSIBLE_PRIVATE_KEY_FILE" :> user_key_private[c])
    @@ ("ANSIBLE_SSH_PIPELINING" :> IF ssh_pipelining THEN "yes" ELSE "no")
    @@ ("ANSIBLE_TIMEOUT" :> "120")

\* lines 146-150: the items assigned to ansible_env
AnsibleEnv(c) ==
  ("ANSIBLE_FORKS" :> "10")
    @@ ("ANSIBLE_HOST_KEY_CHECKING" :> "no")
    @@ ("ANSIBLE_PRIVATE_KEY_FILE" :> user_key_private[c])
    @@ ("ANSIBLE_SSH_PIPELINING" :> "yes")
    @@ ("ANSIBLE_TIMEOUT" :> "120")

\* ansible_env[key] = value for each item: an assigned key takes the new
\* value, every other key keeps its own
SetItems(env, items) == items @@ env

\* lines 145-150.  copy(os.environ) is a shallow copy: it makes a second
\* os._Environ object around the same data dictionary, so ansible_env and
\* os.environ hold one set of variables and the assignments to ansible_env
\* are assignments to the data of os.environ.
SetEnv(fr, w) ==
  [w EXCEPT !.environ = SetItems(w.environ, AnsibleEnv(fr.cluster))]

\* Variant of CheckNoneStep: the playbook is looked at before the empty
\* inventory is.
CheckNoneStepPlaybookFirst(fr, w) ==
  IF playbook # "file"
  THEN Result(Raise(fr, "AnsibleError"), w)
  ELSE IF fr.inventory_path = None
       THEN Result(Return(fr, "True"), w)
       ELSE Result([fr EXCEPT !.pc = "check_inventory"], w)

\* lines 159-164: no inventory, nothing to set up (the statement follows
\* lines 133-150 in one step, see Exec)
CheckNoneStep(fr, w) ==
  IF fr.inventory_path = None
  THEN Result(Return(fr, "True"), w)
  ELSE Result([fr EXCEPT !.pc = "check_inventory"], w)

\* Variant of CheckInventoryStep: the inventory file is taken to be there.
CheckInventoryStepUntested(fr, w) ==
  Result([fr EXCEPT !.pc = "check_playbook"], w)

\* lines 165-168
CheckInventoryStep(fr, w) ==
  IF ~FileExists(w.fs, fr.inventory_path[1], fr.inventory_path[2])
  THEN Result(Raise(fr, "AnsibleError"), w)
  ELSE Result([fr EXCEPT !.pc = "check_playbook"], w)

\* lines 171-178: os.path.exists, then os.path.isfile
CheckPlaybookStep(fr, w) ==
  IF playbook = "missing"
  THEN Result(Raise(fr, "AnsibleError"), w)
  ELSE IF playbook # "file"
       THEN Result(Raise(fr, "AnsibleError"), w)
       ELSE Result([fr EXCEPT !.pc = "call"], w)

\* os.path.realpath: symbolic links are followed
Realpath(p) ==
  IF p = LinkedPlaybook THEN "/srv/playbooks/v2/site.yml" ELSE p

\* os.path.join(dir, name) as the string it is
PathString(path) == path[1] \o "/" \o path[2]

Min(a, b) == IF a <= b THEN a ELSE b

\* Variant of Verbosity: the verbosity is not capped.
VerbosityUncapped(level) == (WARNING - level) \div 10

\* line 201; the module is Python 2, where / on two integers is integer
\* division, rounding towards minus infinity
Verbosity(level) == Min(3, (WARNING - level) \div 10)

RECURSIVE Times(_, _)
\* str * n: n copies of str, none when n is not positive
Times(str, n) == IF n <= 0 THEN "" ELSE str \o Times(str, n - 1)

\* lines 201-203
VerbosityFlags(level) ==
  IF Verbosity(level) > 0
  THEN << "-" \o Times("v", Verbosity(level)) >>
  ELSE <<>>

\* Variant of SudoFlags: the flags are appended whatever self._sudo is.
SudoFlagsAlways == << "--sudo", "--sudo-user=" \o sudo_user >>

\* lines 189-195
SudoFlags ==
  IF sudo THEN << "--sudo", "--sudo-user=" \o sudo_user >> ELSE <<>>

\* lines 183-203: the command line
Cmd(fr) ==
  << "ansible-playbook", Realpath(playbook_path),
     "--inventory=" \o PathString(fr.inventory_path) >>
    \o SudoFlags \o VerbosityFlags(log_level)

\* line 207: call(cmd, env=ansible_env) starts the child, or raises OSError
\* when it cannot
CallStep(fr, w, in) ==
  IF in.spawn_fails
  THEN Result(Raise(fr, "OSError"), w)
  ELSE Result([fr EXCEPT !.pc = "wait", !.child = "running",
                         !.cmd = Cmd(fr), !.child_env = w.environ], w)

\* Variant of ResultOf: a child killed by a signal counts as a success.
ResultOfPositive(rc) == IF rc <= 0 THEN "True" ELSE "False"

\* lines 208-219: the result for the child's return code
ResultOf(rc) == IF rc = 0 THEN "True" ELSE "False"

\* line 207: call() waits for the child and hands back its return code
WaitStep(fr, w, in) ==
  Result(Return([fr EXCEPT !.child = "exited", !.exit = <<in.rc>>],
                ResultOf(in.rc)),
         w)

\* ------------------------------------------------------------- cleanup
\* line 275
CheckStorageStep(fr, w) ==
  IF Truthy(w.storage_path) /\ DirExists(w.fs, w.storage_path)
  THEN Result([fr EXCEPT !.pc = "check_file",
                         !.inventory_path =
                             PathJoin(w.storage_path, Fname(fr.cluster))], w)
  ELSE Result(Return(fr, "None"), w)

\* Variant of CheckFileStep: the temporary directory is reclaimed whether or
\* not the inventory file was there.
CheckFileStepReclaim(fr, w) ==
  IF FileExists(w.fs, fr.inventory_path[1], fr.inventory_path[2])
  THEN Result([fr EXCEPT !.pc = "unlink"], w)
  ELSE IF storage_path_tmp
       THEN Result([fr EXCEPT !.pc = "listdir"], w)
       ELSE Result(Return(fr, "None"), w)

\* line 280
CheckFileStep(fr, w) ==
  IF FileExists(w.fs, fr.inventory_path[1], fr.inventory_path[2])
  THEN Result([fr EXCEPT !.pc = "unlink"], w)
  ELSE Result(Return(fr, "None"), w)

\* Variant of Except: the handler logs the error and raises it again.
ExceptReraise(fr, exception) == Raise([fr EXCEPT !.caught = TRUE], exception)

\* lines 286-289: the handler of the try block logs the OSError and goes on
Except(fr, exception) ==
  IF exception = "OSError"
  THEN Return([fr EXCEPT !.caught = TRUE], "None")
  ELSE Raise(fr, exception)

\* Variant of UnlinkStep: the directory is looked into whatever
\* self._storage_path_tmp is.
UnlinkStepAlwaysReclaim(fr, w, in) ==
  LET d == fr.inventory_path[1]
      n == fr.inventory_path[2]
  IN IF in.unlink_fails \/ ~FileExists(w.fs, d, n)
     THEN Result(Except(fr, "OSError"), w)
     ELSE Result([fr EXCEPT !.pc = "listdir"],
                 [w EXCEPT !.fs = RemoveFile(w.fs, d, n)])

\* lines 282-283: os.unlink raises OSError when it fails or the file is gone
UnlinkStep(fr, w, in) ==
  LET d == fr.inventory_path[1]
      n == fr.inventory_path[2]
  IN IF in.unlink_fails \/ ~FileExists(w.fs, d, n)
     THEN Result(Except(fr, "OSError"), w)
     ELSE Result(IF storage_path_tmp
                 THEN [fr EXCEPT !.pc = "listdir"]
                 ELSE Return(fr, "None"),
                 [w EXCEPT !.fs = RemoveFile(w.fs, d, n)])

\* Variant of ListdirStep: the directory is removed without looking into it.
ListdirStepUnchecked(fr, w) ==
  IF ~DirExists(w.fs, w.storage_path)
  THEN Result(Except(fr, "OSError"), w)
  ELSE Result([fr EXCEPT !.pc = "rmtree"], w)

\* line 284: os.listdir raises OSError when the directory is gone
ListdirStep(fr, w) ==
  IF ~DirExists(w.fs, w.storage_path)
  THEN Result(Except(fr, "OSError"), w)
  ELSE IF Cardinality(Listdir(w.fs, w.storage_path)) = 0
       THEN Result([fr EXCEPT !.pc = "rmtree"], w)
       ELSE Result(Return(fr, "None"), w)

\* Variant of RmtreeStep: shutil.rmtree is called after the try block.
RmtreeStepUnguarded(fr, w, in) ==
  IF in.rmtree_fails \/ ~DirExists(w.fs, w.storage_path)
  THEN Result(Raise(fr, "OSError"), w)
  ELSE Result(Return(fr, "None"),
              [w EXCEPT !.fs = RemoveTree(w.fs, w.storage_path)])

\* line 285: shutil.rmtree raises OSError when it fails or the directory is
\* gone
RmtreeStep(fr, w, in) ==
  IF in.rmtree_fails \/ ~DirExists(w.fs, w.storage_path)
  THEN Result(Except(fr, "OSError"), w)
  ELSE Result(Return(fr, "None"),
              [w EXCEPT !.fs = RemoveTree(w.fs, w.storage_path)])

\* ------------------------------------------------------------ execution
\* The statement at fr.pc.
Exec(fr, w, in) ==
  CASE fr.pc = "build"           -> BuildStep(fr, w)
    [] fr.pc = "open"            -> OpenStep(fr, w)
    [] fr.pc = "write"           -> WriteStep(fr, w)
    [] fr.pc = "check_none"      -> CheckNoneStep(fr, SetEnv(fr, w))
    [] fr.pc = "check_inventory" -> CheckInventoryStep(fr, w)
    [] fr.pc = "check_playbook"  -> CheckPlaybookStep(fr, w)
    [] fr.pc = "call"            -> CallStep(fr, w, in)
    [] fr.pc = "wait"            -> WaitStep(fr, w, in)
    [] fr.pc = "check_storage"   -> CheckStorageStep(fr, w)
    [] fr.pc = "check_file"      -> CheckFileStep(fr, w)
    [] fr.pc = "unlink"          -> UnlinkStep(fr, w, in)
    [] fr.pc = "listdir"         -> ListdirStep(fr, w)
    [] fr.pc = "rmtree"          -> RmtreeStep(fr, w, in)

\* One statement of the call in frame fr, noted in the call's history.
Step(fr, w, in) ==
  LET r == Exec(fr, w, in)
      saw == IF fr.pc = "check_inventory"
             THEN << FileExists(w.fs, fr.inventory_path[1], fr.inventory_path[2]) >>
             ELSE fr.saw_inventory
      stale == IF fr.pc = "open"
               THEN /\ FileExists(w.fs, fr.build_path[1], fr.build_path[2])
                    /\ w.fs[fr.build_path[1]][fr.build_path[2]] # fr.lines
               ELSE fr.stale
  IN Result([r.fr EXCEPT !.trail = Append(fr.trail, fr.pc),
                         !.saw_inventory = saw, !.stale = stale],
            r.w)

RECURSIVE Run(_, _, _)
\* The call in frame fr, run until it returns or raises.
Run(fr, w, in) ==
  IF fr.pc = "done" THEN Result(fr, w)
  ELSE LET r == Step(fr, w, in) IN Run(r.fr, r.w, in)

\* setup_cluster(cluster), lines 132 ff.
SetupFrame(c) == NewFrame("setup_cluster", c, "build")

\* cleanup(cluster), lines 275 ff.
CleanupFrame(c) == NewFrame("cleanup", c, "check_storage")

\* ------------------------------------------------------------- __init__
\* lines 83-110: the provider after construction with the given arguments.
\* A given storage path is created when absent and may already hold files;
\* without one, a fresh temporary directory is made.
Construct(g, e, pb, storage, other) ==
  /\ groups = g
  /\ environment = e
  /\ playbook = pb
  /\ IF Truthy(storage)
     THEN /\ storage_path = storage
          /\ storage_path_tmp = FALSE
          /\ fs = (storage :> IF other THEN (OtherFile :> <<"notes">>) ELSE <<>>)
     ELSE /\ storage_path = MkdtempName(<<>>)
          /\ storage_path_tmp = TRUE
          /\ fs = Mkdir(<<>>, MkdtempName(<<>>))

\* lines 81-100: the arguments that shape the command line
Options(path, su, pipelining) ==
  /\ playbook_path = path
  /\ sudo = su.sudo
  /\ sudo_user = su.sudo_user
  /\ ssh_pipelining = pipelining

\* The constructor's defaults for these arguments, in a process that logs
\* warnings and inherited no variable of ansible.
Defaults ==
  /\ Options(DefaultPlaybook, [sudo |-> TRUE, sudo_user |-> "root"], TRUE)
  /\ log_level = WARNING
  /\ os_environ = ("HOME" :> "/root") @@ ("PATH" :> "/usr/bin")

Init ==
  /\ \E g \in GroupMaps, e \in EnvMaps, pb \in PlaybookStates,
        storage \in {NoStorage, UserStorage}, other \in BOOLEAN :
       /\ Truthy(storage) \/ ~other
       /\ Construct(g, e, pb, storage, other)
  /\ Defaults
  /\ nodes \in { f \in [Clusters -> NodeSeqs] :
                  \A c \in Clusters : f[c] \in NodeSeqsOf(c) }
  /\ last = Idle
  /\ frames = [t \in Threads |-> Idle]

\* --------------------------------------------- Spec: one caller at a time
\* The provider and the file system after a call that ended as r.
Returned(r) ==
  /\ last' = r.fr
  /\ storage_path' = r.w.storage_path
  /\ fs' = r.w.fs
  /\ os_environ' = r.w.environ
  /\ UNCHANGED << config, nodes, frames >>

\* setup_cluster(c), from call to return
Setup(c) ==
  \E in \in SetupInputs :
    \E r \in { Run(SetupFrame(c), World(storage_path, fs, os_environ), in) } : Returned(r)

\* cleanup(c), from call to return
Cleanup(c) ==
  \E in \in CleanupInputs :
    \E r \in { Run(CleanupFrame(c), World(storage_path, fs, os_environ), in) } : Returned(r)

\* The cluster's membership changes between two calls (nodes are started or
\* stopped by the rest of elasticluster).
ChangeNodes(c) ==
  \E ns \in NodeSeqsOf(c) :
    /\ ns # nodes[c]
    /\ nodes' = [nodes EXCEPT ![c] = ns]
    /\ last' = Idle
    /\ UNCHANGED << config, storage_path, fs, os_environ, frames >>

Next ==
  \E c \in ClusterNames : Setup(c) \/ Cleanup(c) \/ ChangeNodes(c)

Spec == Init /\ [][Next]_vars

\* ------------------------- SpecLaunch: one caller, the ways to be launched
\* The calls of Spec for one cluster, on a provider with temporary storage
\* and one group, constructed either in a process with any inherited environment and with
\* any ssh_pipelining flag, or with any playbook path, sudo arguments and
\* log level.
InitLaunch ==
  /\ \E pb \in PlaybookStates :
       /\ Construct(("frontend" :> <<"web">>), <<>>, pb, NoStorage, FALSE)
       /\ \/ /\ \E pipelining \in BOOLEAN :
                   Options(DefaultPlaybook,
                           [sudo |-> TRUE, sudo_user |-> "root"], pipelining)
             /\ log_level = WARNING
             /\ os_environ \in InheritedEnvs
          \/ /\ pb = "file"
             /\ \E path \in PlaybookPaths, su \in SudoConfigs :
                   Options(path, su, TRUE)
             /\ log_level \in LogLevels
             /\ os_environ = ("HOME" :> "/root") @@ ("PATH" :> "/usr/bin")
  /\ nodes = [c \in Clusters |-> <<1>>]
  /\ last = Idle
  /\ frames = [t \in Threads |-> Idle]

NextLaunch == Setup("a") \/ Cleanup("a") \/ ChangeNodes("a")

SpecLaunch == InitLaunch /\ [][NextLaunch]_vars

\* ------------------------------- SpecCleanups: cleanup calls that overlap
\* Several callers share one provider with temporary storage.  Each makes
\* one call; the statements of their calls interleave.
InitShared ==
  /\ \E g \in GroupMaps, pb \in PlaybookStates :
       Construct(g, <<>>, pb, NoStorage, FALSE)
  /\ groups["frontend"] = <<"web">>
  /\ Defaults
  /\ nodes = [c \in Clusters |-> <<1>>]
  /\ last = Idle
  /\ frames = [t \in Threads |-> Idle]

NotStarted(t) == frames[t].op = "none"

Running(t) == frames[t].pc # "done"

\* Callers are interchangeable: they start in the order of their numbers.
MayStart(t) == NotStarted(t) /\ \A u \in Threads : u < t => ~NotStarted(u)

\* Before the callers start, setup_cluster(c) is run for some clusters, each
\* call from call to return.
Prepare(c) ==
  /\ \A t \in Threads : NotStarted(t)
  /\ \E in \in SetupInputs :
       \E r \in { Run(SetupFrame(c), World(storage_path, fs, os_environ), in) } :
         /\ storage_path' = r.w.storage_path
         /\ fs' = r.w.fs
         /\ os_environ' = r.w.environ
  /\ UNCHANGED << config, nodes, last, frames >>

\* No caller is in a call for cluster c.
NotInUse(c) == \A u \in Threads : Running(u) => frames[u].cluster # c

\* What can happen to the statements of the call in frame fr.
InputsOf(fr) == IF fr.op = "cleanup" THEN CleanupInputs ELSE SetupInputs

\* Caller t calls cleanup(c), for a cluster no other caller is working on.
StartCleanup(t, c) ==
  /\ MayStart(t)
  /\ NotInUse(c)
  /\ frames' = [frames EXCEPT ![t] = CleanupFrame(c)]
  /\ UNCHANGED << config, storage_path, fs, os_environ, nodes, last >>

\* Caller t executes the next statement of its call.
StepThread(t) ==
  /\ Running(t)
  /\ \E in \in InputsOf(frames[t]) :
       \E r \in { Step(frames[t], World(storage_path, fs, os_environ), in) } :
         /\ frames' = [frames EXCEPT ![t] = r.fr]
         /\ storage_path' = r.w.storage_path
         /\ fs' = r.w.fs
         /\ os_environ' = r.w.environ
  /\ UNCHANGED << config, nodes, last >>

NextCleanups ==
  \/ \E c \in Clusters : Prepare(c)
  \/ \E t \in Threads, c \in Clusters : StartCleanup(t, c)
  \/ \E t \in Threads : StepThread(t)

SpecCleanups == InitShared /\ [][NextCleanups]_vars

\* -------------------- SpecConc: setup_cluster and cleanup calls that overlap
\* Caller t calls setup_cluster(c), for a cluster no other caller is working
\* on.
StartSetup(t, c) ==
  /\ MayStart(t)
  /\ NotInUse(c)
  /\ frames' = [frames EXCEPT ![t] = SetupFrame(c)]
  /\ UNCHANGED << config, storage_path, fs, os_environ, nodes, last >>

NextConc ==
  \/ \E c \in Clusters : Prepare(c)
  \/ \E t \in Threads, c \in Clusters : StartSetup(t, c)
  \/ \E t \in Threads, c \in Clusters : StartCleanup(t, c)
  \/ \E t \in Threads : StepThread(t)

SpecConc == InitShared /\ [][NextConc]_vars

\* ------------------------- SpecCalls: the calls of a provider's whole life
\* The callers call one after the other, each call from call to return;
\* frames keeps the calls in the order they were made.
InitCalls ==
  /\ \E pb \in PlaybookStates :
       Construct(("frontend" :> <<"web">>), <<>>, pb, NoStorage, FALSE)
  /\ Defaults
  /\ nodes \in { f \in [Clusters -> NodeSeqs] :
                  \A c \in Clusters : f[c] \in NodeSeqsOf(c) }
  /\ last = Idle
  /\ frames = [t \in Threads |-> Idle]

\* Caller t has made the call that started in frame fr.
Called(t, fr) ==
  /\ \E in \in InputsOf(fr) :
       \E r \in { Run(fr, World(storage_path, fs, os_environ), in) } :
         /\ frames' = [frames EXCEPT ![t] = r.fr]
         /\ storage_path' = r.w.storage_path
         /\ fs' = r.w.fs
         /\ os_environ' = r.w.environ
  /\ UNCHANGED << config, nodes, last >>

\* setup_cluster(c), from call to return
CallSetup(t, c) ==
  /\ MayStart(t)
  /\ Called(t, SetupFrame(c))

\* cleanup(c), from call to return
CallCleanup(t, c) ==
  /\ MayStart(t)
  /\ Called(t, CleanupFrame(c))

NextCalls ==
  \/ \E t \in Threads, c \in ClusterNames : CallSetup(t, c)
  \/ \E t \in Threads, c \in ClusterNames : CallCleanup(t, c)

SpecCalls == InitCalls /\ [][NextCalls]_vars

\* ================================================================ claims
\* The inventory file of cluster c in the provider's storage.
InvExists(f, c) == FileExists(f, storage_path, Fname(c))

InvContent(f, c) == f[storage_path][Fname(c)]

Range(q) == { q[i] : i \in DOMAIN q }

\* Some node of the membership has a kind of the role-to-group mapping.
KindMapped(ns) == \E i \in DOMAIN ns : NodePool[ns[i]].kind \in DOMAIN groups

\* The membership has at least one (node, group) pairing.
HasPairing(ns) ==
  \E i \in DOMAIN ns :
    /\ NodePool[ns[i]].kind \in DOMAIN groups
    /\ groups[NodePool[ns[i]].kind] # <<>>

\* _build_inventory has returned to setup_cluster.
BuildReturned(fr) == "check_none" \in Range(fr.trail)

Raised(fr) == fr.ret \notin {"pending", "True", "False", "None"}

LastTrailEnds(stmt) ==
  last.trail # <<>> /\ last.trail[Len(last.trail)] = stmt

\* C1: for a cluster in which no node's kind is in the role-to-group mapping,
\* _build_inventory returns None and writes no file, and setup_cluster
\* returns True, starts no child and raises nothing, whatever lies at the
\* playbook path.
C1_NoMatchIsNoOp ==
  /\ [](last.op = "setup_cluster" /\ ~KindMapped(nodes[last.cluster])
          => /\ BuildReturned(last)
             /\ last.inventory_path = None
             /\ ~last.wrote
             /\ last.ret = "True"
             /\ last.child = "none")
  /\ [][last'.op = "setup_cluster" /\ ~KindMapped(nodes'[last'.cluster])
          => fs' = fs]_vars

\* C1 happens: a cluster with a node, none of a mapped kind, was set up
\* while the playbook was missing.
C1_Witness ==
  /\ last.op = "setup_cluster"
  /\ nodes[last.cluster] # <<>>
  /\ ~KindMapped(nodes[last.cluster])
  /\ playbook = "missing"
  /\ last.ret = "True"

\* C2: when the inventories of two clusters lie in one temporary storage
\* directory, cleanup of one of them removes nothing but that cluster's
\* inventory: the other inventory is still there, unchanged, and so is the
\* directory.
C2_CleanupLeavesSibling ==
  [][\A a, b \in ClusterNames :
       ( /\ a # b
         /\ storage_path_tmp
         /\ InvExists(fs, a) /\ InvExists(fs, b)
         /\ last'.op = "cleanup" /\ last'.cluster = a )
       => /\ DirExists(fs', storage_path)
          /\ InvExists(fs', b)
          /\ InvContent(fs', b) = InvContent(fs, b)
          /\ DOMAIN fs' = DOMAIN fs
          /\ \A d \in DOMAIN fs : DOMAIN fs[d] \ {Fname(a)} \subseteq DOMAIN fs'[d]
    ]_vars

\* C2 happens: cleanup of a has unlinked a's inventory and found the
\* temporary directory still holding b's.
C2_Witness ==
  /\ last.op = "cleanup" /\ last.cluster = "a"
  /\ storage_path_tmp
  /\ last.trail = <<"check_storage", "check_file", "unlink", "listdir">>
  /\ ~last.caught
  /\ ~InvExists(fs, "a")
  /\ InvExists(fs, "b")

\* C3: every setup_cluster call for a cluster with at least one (node,
\* group) pairing creates or overwrites the cluster's inventory, also after
\* a cleanup that removed the temporary directory: the file exists at the
\* returned path when _build_inventory returns.
C3_SetupAlwaysWrites ==
  last.op = "setup_cluster" /\ HasPairing(nodes[last.cluster])
    => /\ last.wrote
       /\ last.inventory_path = PathJoin(storage_path, Fname(last.cluster))
       /\ InvExists(fs, last.cluster)

\* A cleanup whose os.unlink failed.
UnlinkFailed(fr) ==
  fr.op = "cleanup" /\ fr.caught /\ fr.trail[Len(fr.trail)] = "unlink"

\* A cleanup call that changes nothing and leaves nothing of cluster c.
CleanupIsNoOp(c) ==
  /\ last'.ret = "None"
  /\ fs' = fs
  /\ ~InvExists(fs', c)

C5_ExitCodeIsResult ==
  last.op = "setup_cluster" /\ last.child # "none"
    => /\ last.child = "exited"
       /\ last.exit # <<>>
       /\ last.ret \in {"True", "False"}
       /\ (last.ret = "True") <=> (last.exit[1] = 0)

\* C5 happens: the child ended with exit code 2 and setup_cluster returned
\* False.
C5_Witness ==
  /\ last.op = "setup_cluster"
  /\ last.child = "exited"
  /\ last.exit = <<2>>
  /\ last.ret = "False"

\* C7: cleanup never raises: when os.unlink or shutil.rmtree fails, the
\* error is caught and cleanup returns.
C7_CleanupNeverRaises ==
  last.op = "cleanup" => last.ret = "None"

\* C7 happens: shutil.rmtree failed and cleanup returned.
C7_Witness ==
  /\ last.op = "cleanup"
  /\ LastTrailEnds("rmtree")
  /\ last.caught
  /\ DirExists(fs, storage_path)
  /\ last.ret = "None"

\* ------------------------------------------------ reading an inventory file
\* The groups the role-to-group mapping names.
GroupNames == UNION { Range(groups[k]) : k \in DOMAIN groups }

Header(g) == "[" \o g \o "]"

IsHeader(line) == \E g \in GroupNames : line = Header(g)

\* The places of the section of group g in the lines of a file.
SectionsOf(lines, g) == { i \in DOMAIN lines : lines[i] = Header(g) }

RECURSIVE HostsFrom(_, _)
\* The host lines from place j up to the next blank line or section.
HostsFrom(lines, j) ==
  IF j > Len(lines) \/ lines[j] = "" \/ IsHeader(lines[j]) THEN <<>>
  ELSE <<lines[j]>> \o HostsFrom(lines, j + 1)

\* All host lines of a file.
HostLinesOf(lines) ==
  { lines[i] : i \in { j \in DOMAIN lines : lines[j] # "" /\ ~IsHeader(lines[j]) } }

\* The line of a node in an inventory file.
LineOf(node) ==
  HostLine(<< node.name, node.preferred_ip, Join(" ", ExtraVars(node)) >>)

\* The groups of a node: those mapped to its kind, none when it has none.
GroupsOfNode(node) ==
  IF node.kind \in DOMAIN groups THEN groups[node.kind] ELSE <<>>

\* The groups referenced by the kind of some node of the membership.
ReferencedGroups(ns) ==
  UNION { Range(GroupsOfNode(NodePool[ns[i]])) : i \in DOMAIN ns }

Occurrences(g, gs) == Cardinality({ i \in DOMAIN gs : gs[i] = g })

RECURSIVE LinesOfGroup(_, _, _)
\* In node order, the line of each node of group g: once when perOccurrence
\* is FALSE, else once for each time g stands in the list of the node's kind.
LinesOfGroup(ns, g, perOccurrence) ==
  IF ns = <<>> THEN <<>>
  ELSE LET node == NodePool[Head(ns)]
           k == Occurrences(g, GroupsOfNode(node))
           times == IF perOccurrence THEN k ELSE IF k > 0 THEN 1 ELSE 0
       IN [i \in 1..times |-> LineOf(node)]
          \o LinesOfGroup(Tail(ns), g, perOccurrence)

\* The lines hold one section for each referenced group and for no other,
\* with the group's host lines under it, and no further host line.
WellFormedInventory(lines, ns, perOccurrence) ==
  /\ \A g \in GroupNames :
       IF g \in ReferencedGroups(ns)
       THEN /\ Cardinality(SectionsOf(lines, g)) = 1
            /\ \A i \in SectionsOf(lines, g) :
                 HostsFrom(lines, i + 1) = LinesOfGroup(ns, g, perOccurrence)
       ELSE SectionsOf(lines, g) = {}
  /\ \A i \in DOMAIN lines :
       lines[i] # "" /\ ~IsHeader(lines[i])
         => \E j \in DOMAIN lines :
              /\ j < i /\ IsHeader(lines[j])
              /\ \A k \in (j + 1)..i : lines[k] # "" /\ ~IsHeader(lines[k])
  /\ HostLinesOf(lines) \subseteq
       { LineOf(NodePool[ns[i]]) :
           i \in { j \in DOMAIN ns : NodePool[ns[j]].kind \in DOMAIN groups } }

\* setup_cluster has got the path of a written inventory from
\* _build_inventory.
Built(fr) == fr.op = "setup_cluster" /\ fr.inventory_path # None

\* C9 as stated: the file written for a cluster with a node of a mapped kind
\* has exactly one section for each group referenced by the kind of a
\* matching node, and under it exactly one host line for each (node, group)
\* pairing, in cluster node order; nodes of other kinds have no line.
C9_OneLinePerPairing ==
  Built(last) /\ KindMapped(nodes[last.cluster])
    => WellFormedInventory(InvContent(fs, last.cluster), nodes[last.cluster], FALSE)

\* C9 amended: exactly one section for each referenced group, and under it,
\* in cluster node order, one host line of a node for each time the group
\* stands in the list mapped to the node's kind (exactly one for each
\* pairing when no list names a group twice); nodes of other kinds have no
\* line.
C9_OneLinePerOccurrence ==
  Built(last) /\ KindMapped(nodes[last.cluster])
    => WellFormedInventory(InvContent(fs, last.cluster), nodes[last.cluster], TRUE)

\* C9 happens: an inventory was written for two nodes that share a group,
\* one of them in a second group as well.
C9_Witness ==
  /\ Built(last)
  /\ Len(nodes[last.cluster]) = 2
  /\ \E g \in GroupNames :
       Len(LinesOfGroup(nodes[last.cluster], g, TRUE)) = 2
  /\ Cardinality(ReferencedGroups(nodes[last.cluster])) = 2

\* What a build of the membership ns writes.
Rendered(ns) ==
  LET inventory == InventoryOf(ns, <<>>)
  IN InventoryLines(inventory, KeyOrder(DOMAIN inventory))

\* No host line of the file belongs to a node outside the membership.
NoStaleHost(lines, ns) ==
  HostLinesOf(lines) \subseteq { LineOf(NodePool[ns[i]]) : i \in DOMAIN ns }

\* Two builds in a row of one cluster, both returning a path when
\* both is TRUE.
TwoBuilds(both) ==
  /\ last.op = "setup_cluster" /\ BuildReturned(last)
  /\ last'.op = "setup_cluster" /\ BuildReturned(last')
  /\ last'.cluster = last.cluster
  /\ both => Built(last) /\ Built(last')

\* Two builds in a row return the same and leave the same content.
SameBuild ==
  /\ last'.inventory_path = last.inventory_path
  /\ InvExists(fs', last.cluster) <=> InvExists(fs, last.cluster)
  /\ InvExists(fs, last.cluster)
       => InvContent(fs', last.cluster) = InvContent(fs, last.cluster)

\* C10 as stated: after a build, the content of the cluster's inventory file
\* is decided by the cluster's current nodes and the configuration alone:
\* two builds of an unchanged cluster return the same path and leave the
\* same content, and after a build the file has no host line of a node that
\* is not in the cluster.
C10_ContentIsCurrent ==
  /\ [](last.op = "setup_cluster" /\ BuildReturned(last)
          /\ InvExists(fs, last.cluster)
          => /\ InvContent(fs, last.cluster) = Rendered(nodes[last.cluster])
             /\ NoStaleHost(InvContent(fs, last.cluster), nodes[last.cluster]))
  /\ [][TwoBuilds(FALSE) => SameBuild]_vars

\* C10 amended: after a build that returns a path (the cluster has a (node,
\* group) pairing), the file at that path is decided by the cluster's
\* current nodes and the configuration alone: two such builds of an
\* unchanged cluster return the same path and leave the same content, and
\* the file has no host line of a node that is not in the cluster.  A build
\* that returns None leaves an earlier file as it was.
C10_BuiltContentIsCurrent ==
  /\ [](Built(last)
          => /\ last.inventory_path = PathJoin(storage_path, Fname(last.cluster))
             /\ InvExists(fs, last.cluster)
             /\ InvContent(fs, last.cluster) = Rendered(nodes[last.cluster])
             /\ NoStaleHost(InvContent(fs, last.cluster), nodes[last.cluster]))
  /\ [][TwoBuilds(TRUE) => SameBuild]_vars
  /\ [][last'.op = "setup_cluster" /\ BuildReturned(last') /\ ~Built(last')
          => fs' = fs]_vars

\* C10 happens: a build has overwritten an inventory file that held other
\* lines before.
C10_Witness ==
  /\ Built(last)
  /\ last.stale
  /\ InvContent(fs, last.cluster) = Rendered(nodes[last.cluster])

\* C8: when cleanup calls for different clusters that share one temporary
\* storage directory overlap, with their file-system steps interleaved in
\* any order, no call raises, and no inventory file is deleted of a cluster
\* that is not being cleaned up.
C8_ConcurrentCleanups ==
  /\ [](\A t \in Threads : ~Raised(frames[t]))
  /\ [][\A c \in Clusters :
          InvExists(fs, c) /\ ~InvExists(fs', c)
            => \E t \in Threads :
                 /\ frames[t].op = "cleanup"
                 /\ frames[t].cluster = c
                 /\ Running(t)
       ]_vars

\* C8 happens: two overlapping cleanup calls for different clusters both
\* found the directory empty; one removed it and the other, failing to
\* remove it again, returned.
C8_Witness ==
  \E t, u \in Threads :
    /\ t # u
    /\ frames[t].op = "cleanup" /\ frames[u].op = "cleanup"
    /\ frames[t].cluster # frames[u].cluster
    /\ frames[t].trail = <<"check_storage", "check_file", "unlink", "listdir", "rmtree">>
    /\ frames[u].trail = frames[t].trail
    /\ ~frames[t].caught /\ frames[t].ret = "None"
    /\ frames[u].caught /\ frames[u].ret = "None"
    /\ ~DirExists(fs, storage_path)

\* The statements the call in frame fr has gone through.
Passed(fr, stmt) == \E i \in DOMAIN fr.trail : fr.trail[i] = stmt

\* The call in frame fr ended with the configuration error and never had a
\* child.
ConfigurationError(fr) ==
  fr.pc = "done" /\ fr.ret = "raise AnsibleError" /\ fr.child = "none"

\* C6: setup_cluster launches a child only when it found the generated
\* inventory file on disk and the playbook is a regular file; when it finds
\* the inventory file missing, or the playbook missing or not a regular
\* file, it raises AnsibleError and launches no process.
C6_LaunchOnlyWhenValid ==
  \A t \in Threads :
    LET fr == frames[t]
    IN fr.op = "setup_cluster" =>
         /\ fr.child # "none" =>
              fr.saw_inventory = <<TRUE>> /\ playbook = "file"
         /\ fr.saw_inventory = <<FALSE>> => ConfigurationError(fr)
         /\ Passed(fr, "check_playbook") /\ playbook # "file" =>
              ConfigurationError(fr)

\* C6 happens: setup_cluster wrote its inventory file, found it gone when it
\* looked for it, and raised the configuration error without a child.
C6_Witness ==
  \E t \in Threads :
    /\ frames[t].op = "setup_cluster"
    /\ frames[t].wrote
    /\ frames[t].saw_inventory = <<FALSE>>
    /\ ConfigurationError(frames[t])

\* ------------------------------------------------------------ host lines
\* The orders in which the keys of the dict d can be listed.
Orders(d) ==
  { q \in [1..Cardinality(DOMAIN d) -> DOMAIN d] :
      \A i, j \in DOMAIN q : i # j => q[i] # q[j] }

\* The environment overrides of a kind, none when it has none.
OverridesOf(kind) ==
  IF kind \in DOMAIN environment THEN environment[kind] ELSE <<>>

RECURSIVE Items(_, _)
\* " key=value" for each key of d in the given order.
Items(d, order) ==
  IF order = <<>> THEN ""
  ELSE " " \o Head(order) \o "=" \o d[Head(order)] \o Items(d, Tail(order))

\* '<name> ansible_ssh_host=<address> ansible_ssh_user=<user>' and the
\* overrides of the node's own kind, in the given order.
LineForm(node, order) ==
  node.name \o " ansible_ssh_host=" \o node.preferred_ip
    \o " ansible_ssh_user=" \o node.image_user
    \o Items(OverridesOf(node.kind), order)

\* The forms a host line of the node can have.
LineForms(node) ==
  { LineForm(node, order) : order \in Orders(OverridesOf(node.kind)) }

\* The nodes of the membership that stand in some group.
GroupedNodes(ns) ==
  { NodePool[ns[i]] : i \in { j \in DOMAIN ns : GroupsOfNode(NodePool[ns[j]]) # <<>> } }

\* C11: every host line written by _build_inventory is
\* '<name> ansible_ssh_host=<address> <vars>' of a node of the cluster,
\* with <vars> the node's ansible_ssh_user followed by one key=value item
\* for each environment override of the node's own kind and nothing else
\* (so overrides of a kind outside the role-to-group mapping are in no
\* line); every node that has a group is written, a node with an empty
\* address too, with an empty host field.
C11_HostLineForm ==
  Built(last) =>
    LET lines == HostLinesOf(InvContent(fs, last.cluster))
        written == GroupedNodes(nodes[last.cluster])
    IN /\ \A l \in lines : \E node \in written : l \in LineForms(node)
       /\ \A node \in written : LineForms(node) \cap lines # {}

\* C11 happens: with overrides for the kind "frontend" and for the unmapped
\* kind "storage", an inventory was written for a frontend node and for a
\* node without an address.
C11_Witness ==
  /\ Built(last)
  /\ DOMAIN environment = {"frontend", "storage"}
  /\ "n1 ansible_ssh_host=10.0.0.1 ansible_ssh_user=ubuntu http_port=80"
       \in HostLinesOf(InvContent(fs, last.cluster))
  /\ "n2 ansible_ssh_host= ansible_ssh_user=root"
       \in HostLinesOf(InvContent(fs, last.cluster))

\* ------------------------------------------------ the launch of the child
\* setup_cluster has started a child in the call that returned last.
Launched(fr) == fr.op = "setup_cluster" /\ fr.child # "none"

\* The five variables setup_cluster sets for ansible.
OverrideKeys ==
  { "ANSIBLE_FORKS", "ANSIBLE_HOST_KEY_CHECKING", "ANSIBLE_PRIVATE_KEY_FILE",
    "ANSIBLE_SSH_PIPELINING", "ANSIBLE_TIMEOUT" }

\* C12: the environment passed to the child is the environment of the
\* process at the call, overlaid with the five overrides: every inherited
\* variable that is not one of the five keys is passed unchanged, and each
\* of the five has its override value, whatever was inherited and whatever
\* the provider's ssh_pipelining flag is.
C12_ChildEnvironment ==
  [][ Launched(last') /\ last' # last =>
        LET inherited == os_environ
            env == last'.child_env
        IN /\ DOMAIN env = DOMAIN inherited \cup OverrideKeys
           /\ \A k \in DOMAIN inherited \ OverrideKeys : env[k] = inherited[k]
           /\ env["ANSIBLE_FORKS"] = "10"
           /\ env["ANSIBLE_HOST_KEY_CHECKING"] = "no"
           /\ env["ANSIBLE_PRIVATE_KEY_FILE"] = user_key_private[last'.cluster]
           /\ env["ANSIBLE_SSH_PIPELINING"] = "yes"
           /\ env["ANSIBLE_TIMEOUT"] = "120"
    ]_vars

\* C12 happens: a provider constructed with ssh_pipelining=False, in a
\* process that inherited ANSIBLE_FORKS and no PATH, has launched a child.
C12_Witness ==
  /\ Launched(last)
  /\ ~ssh_pipelining
  /\ "PATH" \notin DOMAIN last.child_env
  /\ last.child_env["HOME"] = "/root"
  /\ last.child_env["ANSIBLE_FORKS"] = "10"

\* The elements of the command line after the first n.
After(cmd, n) == SubSeq(cmd, n + 1, Len(cmd))

\* C13: the command line launched is, in this order: the tool's name, the
\* resolved playbook path, --inventory= with exactly the path the build of
\* the same call returned, then --sudo and --sudo-user=<configured user> if
\* and only if sudo is configured, then at most one verbosity flag.
C13_CommandLine ==
  Launched(last) =>
    LET cmd == last.cmd
        rest == After(cmd, 3)
        flags == IF sudo THEN After(rest, 2) ELSE rest
    IN /\ Len(cmd) >= 3
       /\ cmd[1] = "ansible-playbook"
       /\ cmd[2] = Realpath(playbook_path)
       /\ cmd[3] = "--inventory=" \o storage_path \o "/"
                     \o inventory_file_ending \o "." \o last.cluster
       /\ last.inventory_path = PathJoin(storage_path, Fname(last.cluster))
       /\ sudo => /\ Len(rest) >= 2
                  /\ rest[1] = "--sudo"
                  /\ rest[2] = "--sudo-user=" \o sudo_user
       /\ ~sudo => \A i \in DOMAIN cmd :
                     cmd[i] # "--sudo" /\ cmd[i] # "--sudo-user=" \o sudo_user
       /\ Len(flags) <= 1
       /\ \A i \in DOMAIN flags : flags[i] \in {"-v", "-vv", "-vvv"}

\* C13 happens: a provider without sudo, with its playbook behind a
\* symbolic link, launched the child with a verbosity flag.
C13_Witness ==
  /\ Launched(last)
  /\ ~sudo
  /\ playbook_path = LinkedPlaybook
  /\ Len(last.cmd) = 4
  /\ last.cmd[4] = "-vv"

\* The verbosity flags of a command line: what stands after the inventory
\* and sudo flags.
FlagsOf(cmd) == After(cmd, IF sudo THEN 5 ELSE 3)

\* C17: for every log level, a verbosity flag on the command line is a
\* dash and one, two or three 'v'; there is none when the derived verbosity
\* is 0 or negative; and the derived verbosity is at most 3.
C17_VerbosityFlag ==
  Launched(last) =>
    /\ FlagsOf(last.cmd) \in { <<>>, <<"-v">>, <<"-vv">>, <<"-vvv">> }
    /\ Verbosity(log_level) <= 0 => FlagsOf(last.cmd) = <<>>
    /\ Verbosity(log_level) > 0 => FlagsOf(last.cmd) # <<>>
    /\ Verbosity(log_level) <= 3

\* C17 happens: at level 15, where the quotient is not whole, the child was
\* launched with -v.
C17_Witness ==
  /\ Launched(last)
  /\ log_level = 15
  /\ FlagsOf(last.cmd) = <<"-v">>

\* C19 as stated: setup_cluster leaves the environment of the calling
\* process as it was: after any setup call, os.environ has the variables
\* and values it had before the call.
C19_CallerEnvironmentUnchanged ==
  [][ last'.op = "setup_cluster" => os_environ' = os_environ ]_vars

\* ------------------------------------------- the temporary directory's end
\* C14 as stated: in every interleaving of one cluster's cleanup with
\* another cluster's build on the same temporary storage directory, the
\* directory is never removed by a call while it holds the artifact of a
\* cluster other than the call's: nothing is lost between the emptiness
\* check and the directory's removal.
C14_NeverRemovedWhileHolding ==
  [][ DirExists(fs, storage_path) /\ ~DirExists(fs', storage_path)
        => \A t \in Threads :
             frames'[t] # frames[t]
               => \A c \in Clusters \ {frames[t].cluster} : ~InvExists(fs, c)
    ]_vars

\* The clusters that have used the provider: setup_cluster was called for
\* them.
Users ==
  { frames[t].cluster : t \in { u \in Threads : frames[u].op = "setup_cluster" } }

\* Cluster c was cleaned up after its last setup.
CleanedUp(c) ==
  \E u \in Threads :
    /\ frames[u].op = "cleanup" /\ frames[u].cluster = c
    /\ \A t \in Threads :
         frames[t].op = "setup_cluster" /\ frames[t].cluster = c => t < u

\* No removal of a file or of the directory has failed.
NoRemovalError == \A t \in Threads : ~frames[t].caught

\* C15 as stated: with temporary storage and no removal errors, once every
\* cluster that used the provider has been cleaned up, the temporary
\* storage directory no longer exists.
C15_NoDirectoryLeft ==
  /\ storage_path_tmp
  /\ Users # {}
  /\ \A c \in Users : CleanedUp(c)
  /\ NoRemovalError
  => ~DirExists(fs, storage_path)

\* ------------------------------------------------------- no-op success
\* setup_cluster returned True at line 164: there was nothing to set up.
NoOpSuccess(fr) ==
  /\ fr.op = "setup_cluster"
  /\ fr.ret = "True"
  /\ fr.trail # <<>> /\ fr.trail[Len(fr.trail)] = "check_none"

\* C16 as stated: whenever setup_cluster reports no-op success, no
\* inventory file of that cluster exists in the storage location, after any
\* sequence of earlier setup calls for that cluster.
C16_NoOpMeansNoArtifact ==
  NoOpSuccess(last) => ~InvExists(fs, last.cluster)

\* C16 amended: a setup_cluster call that reports no-op success has
\* generated no inventory file and has started no child; the storage
\* location holds for every cluster what it held before the call: an
\* inventory file of that cluster is there afterwards exactly when an
\* earlier call left one, and then with the content it had.
C16_NoOpGeneratesNoArtifact ==
  /\ [](NoOpSuccess(last)
          => /\ ~last.wrote
             /\ last.inventory_path = None
             /\ last.child = "none")
  /\ [][ NoOpSuccess(last')
           => \A c \in Clusters :
                /\ InvExists(fs', c) <=> InvExists(fs, c)
                /\ InvExists(fs, c) => InvContent(fs', c) = InvContent(fs, c)
       ]_vars

\* C16 happens: setup_cluster reported no-op success for a cluster whose
\* inventory file, written by an earlier setup, is still there.
C16_Witness ==
  /\ NoOpSuccess(last)
  /\ InvExists(fs, last.cluster)
  /\ InvContent(fs, last.cluster) # <<>>

\* ------------------------------------------------ storage of the caller
\* C18: when the storage directory was given by the caller, no sequence of
\* setup and cleanup calls removes it, and a cleanup call removes at most
\* the inventory file of its own cluster: every other file of the directory
\* is there afterwards, unchanged, and no file is added.
C18_CallerStorageKept ==
  /\ [](~storage_path_tmp => DirExists(fs, storage_path))
  /\ [][ ~storage_path_tmp /\ last'.op = "cleanup"
           => /\ storage_path' = storage_path
              /\ Listdir(fs', storage_path) \subseteq Listdir(fs, storage_path)
              /\ \A n \in Listdir(fs, storage_path) \ {Fname(last'.cluster)} :
                   /\ n \in Listdir(fs', storage_path)
                   /\ fs'[storage_path][n] = fs[storage_path][n]
       ]_vars

\* C18 happens: a cleanup removed the last file of the caller's storage
\* directory, and the directory is still there, empty.
C18_Witness ==
  /\ ~storage_path_tmp
  /\ last.op = "cleanup"
  /\ LastTrailEnds("unlink")
  /\ ~last.caught
  /\ DirExists(fs, storage_path)
  /\ Listdir(fs, storage_path) = {}

====
